---- MODULE Spec2Model ----
(***************************************************************************)
(* A model of the native AMM program: the configuration record             *)
(* (state.rs), and the five instruction processors Initialize, Deposit,    *)
(* Withdraw, Swap and UpdateConfig (instructions/*.rs).  Each instruction  *)
(* is one action that runs the whole handler: account-list destructuring,  *)
(* payload decode, the checks of process() in program order, and the       *)
(* token-ledger calls it issues.  The host commits an instruction's        *)
(* effects only when the handler returns Ok; a failing handler leaves the  *)
(* ledger as it was, and `last` records what the handler did.              *)
(***************************************************************************)
EXTENDS Integers, Sequences, FiniteSets, TLC

(***************************************************************************)
(* Bounds of the model.                                                    *)
(***************************************************************************)
\* largest amount / bound a payload carries
MaxAmt == 3
\* tokens of mint X and of mint Y the user starts with
UserTokens == 3
\* cap on the LP supply (Deposit is not taken beyond it)
MaxLp == 3
\* the ledger clock and the expirations range over 1..MaxTime
MaxTime == 2
\* the width in bits of the unsigned integers that hold amounts, reserves and
\* supplies (u64 in the program, narrowed so that its overflows can be
\* enumerated)
U64_BITS == 15

(***************************************************************************)
(* Program constants.                                                      *)
(***************************************************************************)
\* constants.rs:2 and the literal in Config::set_fee
MAX_FEE_BPS == 10000
\* Config::LEN = 1 + 8 + 32*3 + 2 + 1
LEN == 108
\* payload lengths Initialize distinguishes
INITIALIZE_DATA_LEN_WITHOUT_AUTHORITY == 76
INITIALIZE_DATA_LEN_WITH_AUTHORITY == 108
\* AmmState discriminants
Uninitialized == 0
Initialized == 1
Disabled == 2
WithdrawOnly == 3

(***************************************************************************)
(* Identities.  A key is a string; a derived address is the string built   *)
(* from the deriving program and the seed tuple, so two derivations agree  *)
(* exactly when program and seeds agree.                                   *)
(***************************************************************************)
ID == "amm"
SYSTEM_ID == "system"
TOKEN_ID == "token"
TOKEN_2022_ID == "token2022"
ATA_ID == "ata"
ZeroKey == "0"
UserKey == "user"
AuthKey == "auth"
StrangerKey == "stranger"
MintX == "mintX"
MintY == "mintY"
Seed1 == "1"
Seed2 == "2"
Bump == "255"

find_program_address(seeds, program) ==
    LET Join[i \in 0..Len(seeds)] ==
            IF i = 0 THEN "" ELSE Join[i - 1] \o "/" \o seeds[i]
    IN  program \o ":" \o Join[Len(seeds)]

\* seeds = ["config", seed, mint_x, mint_y, config_bump]
ConfigAddress(seed, mint_x, mint_y, bump) ==
    find_program_address(<<"config", seed, mint_x, mint_y, bump>>, ID)

\* seeds = ["mint_lp", config key, lp_bump]
MintLpAddress(config_key, lp_bump) ==
    find_program_address(<<"mint_lp", config_key, lp_bump>>, ID)

\* seeds = [config key, token program key, mint]
VaultAddress(config_key, token_program, mint) ==
    find_program_address(<<config_key, token_program, mint>>, ATA_ID)

\* the one pool of the model and the accounts that belong to it
PoolKey == ConfigAddress(Seed1, MintX, MintY, Bump)
PoolMintLp == MintLpAddress(PoolKey, Bump)
PoolVaultX == VaultAddress(PoolKey, TOKEN_ID, MintX)
PoolVaultY == VaultAddress(PoolKey, TOKEN_ID, MintY)
\* accounts a caller can pass instead
ForeignConfigKey == "foreign_config"
ShortConfigKey == "short_config"
ZeroedConfigKey == "zeroed_config"
ForeignVaultKey == "foreign_vault"
ForeignMintKey == "foreign_mint"

(***************************************************************************)
(* The configuration record (state.rs).  An account carries its owner and  *)
(* data length beside the record's fields.                                 *)
(***************************************************************************)
NoAccount ==
    [owner |-> SYSTEM_ID, data_len |-> 0, state |-> Uninitialized,
     seed |-> ZeroKey, authority |-> ZeroKey, mint_x |-> ZeroKey,
     mint_y |-> ZeroKey, fee |-> 0, config_bump |-> ZeroKey]

\* (faulty variant of load: the owner is not tested)
load_without_owner_test(acc) ==
    IF acc.data_len # LEN THEN "InvalidAccountData" ELSE "Ok"

\* Config::load / load_mut / load_mut_unchecked: length, then owner
load(acc) ==
    IF acc.data_len # LEN THEN "InvalidAccountData"
    ELSE IF acc.owner # ID THEN "InvalidAccountData"
    ELSE "Ok"

\* Config::set_state: rejects state >= WithdrawOnly
set_state(cfg, state) ==
    IF state >= WithdrawOnly
    THEN [err |-> "InvalidAccountData", cfg |-> cfg]
    ELSE [err |-> "Ok", cfg |-> [cfg EXCEPT !.state = state]]

\* (faulty variant of set_fee: the range test is dropped)
set_fee_unchecked(cfg, fee) == [err |-> "Ok", cfg |-> [cfg EXCEPT !.fee = fee]]

\* Config::set_fee: rejects fee >= 10_000
set_fee(cfg, fee) ==
    IF fee >= MAX_FEE_BPS
    THEN [err |-> "InvalidAccountData", cfg |-> cfg]
    ELSE [err |-> "Ok", cfg |-> [cfg EXCEPT !.fee = fee]]

\* (faulty variant of set_inner: the authority is not written)
set_inner_without_authority(cfg, seed, authority, mint_x, mint_y, fee, config_bump) ==
    LET s1 == set_state(cfg, Initialized) IN
    IF s1.err # "Ok" THEN s1
    ELSE LET c2 == [s1.cfg EXCEPT !.seed = seed, !.mint_x = mint_x, !.mint_y = mint_y]
             s3 == set_fee(c2, fee)
         IN  IF s3.err # "Ok" THEN s3
             ELSE [err |-> "Ok", cfg |-> [s3.cfg EXCEPT !.config_bump = config_bump]]

\* Config::set_inner: the setters in order, stopping at the first error
set_inner(cfg, seed, authority, mint_x, mint_y, fee, config_bump) ==
    LET s1 == set_state(cfg, Initialized) IN
    IF s1.err # "Ok" THEN s1
    ELSE LET c2 == [s1.cfg EXCEPT !.seed = seed, !.authority = authority,
                                  !.mint_x = mint_x, !.mint_y = mint_y]
             s3 == set_fee(c2, fee)
         IN  IF s3.err # "Ok" THEN s3
             ELSE [err |-> "Ok", cfg |-> [s3.cfg EXCEPT !.config_bump = config_bump]]

\* (faulty variant of has_authority: the all-zero test is dropped)
has_authority_no_zero_test(cfg) == <<"Some", cfg.authority>>

\* Config::has_authority: Some(authority) unless all 32 bytes are zero
has_authority(cfg) ==
    IF cfg.authority # ZeroKey THEN <<"Some", cfg.authority>> ELSE <<"None", ZeroKey>>

(***************************************************************************)
(* The curve engine (crate constant_product_curve), as section 4.3 of the  *)
(* specification states it.  Each operation returns err = "Ok" or an       *)
(* arithmetic error, the latter whenever a product or a sum of its formula *)
(* does not fit the unsigned integer type.                                 *)
(***************************************************************************)
CeilDiv(n, d) == (n + d - 1) \div d

\* the largest value of the unsigned integer type, and whether a value fits it
U64_MAX == 2^U64_BITS - 1
Fits(n) == n <= U64_MAX

\* x' = ceil(a * x / l), y' = ceil(a * y / l)
xy_deposit_amounts_from_l(x, y, l, a) ==
    IF l = 0 \/ ~Fits(a * x) \/ ~Fits(a * y) THEN [err |-> "CurveError", x |-> 0, y |-> 0]
    ELSE [err |-> "Ok", x |-> CeilDiv(a * x, l), y |-> CeilDiv(a * y, l)]

\* x' = floor(a * x / l), y' = floor(a * y / l)
xy_withdraw_amounts_from_l(x, y, l, a) ==
    IF l = 0 \/ ~Fits(a * x) \/ ~Fits(a * y) THEN [err |-> "CurveError", x |-> 0, y |-> 0]
    ELSE [err |-> "Ok", x |-> (a * x) \div l, y |-> (a * y) \div l]

\* ConstantProduct::init(x, y, l, fee, None)
init(x, y, l, fee) == [x |-> x, y |-> y, l |-> l, fee |-> fee]

\* the fee is taken off the input, the output is what the invariant
\* k = x * y leaves over: reserve_out - floor(k / (reserve_in + input_after_fee))
swap(curve, is_x, a, min) ==
    LET rin  == IF is_x THEN curve.x ELSE curve.y
        rout == IF is_x THEN curve.y ELSE curve.x
        iaf  == (a * (MAX_FEE_BPS - curve.fee)) \div MAX_FEE_BPS
        bad  == [err |-> "CurveError", deposit |-> 0, withdraw |-> 0, iaf |-> iaf]
    IN  IF ~Fits(a * (MAX_FEE_BPS - curve.fee)) \/ ~Fits(curve.x * curve.y) \/ ~Fits(rin + iaf)
        THEN bad
        ELSE IF rin + iaf = 0 THEN bad
        ELSE LET out == rout - ((curve.x * curve.y) \div (rin + iaf)) IN
             IF out < min THEN bad
             ELSE [err |-> "Ok", deposit |-> a, withdraw |-> out, iaf |-> iaf]

(***************************************************************************)
(* State: the pool's configuration account, the token ledger (the two      *)
(* vaults, the user's two token accounts, the LP mint's supply, all held   *)
(* by the one user), the record `last` of the                              *)
(* instruction the current transaction ran (op = "none" between            *)
(* transactions), and `prev`, what the transaction before it deposited.    *)
(***************************************************************************)
VARIABLES config, vault_x, vault_y, user_x, user_y, lp_supply, last, prev

vars == <<config, vault_x, vault_y, user_x, user_y, lp_supply, last, prev>>

\* an instruction's inputs: the accounts passed and the decoded payload
NoArgs ==
    [n |-> TRUE, config |-> PoolKey, vault_x |-> PoolVaultX, vault_y |-> PoolVaultY,
     mint_lp |-> PoolMintLp, mint_supply |-> 0, mint_authority |-> PoolKey,
     token_program |-> TOKEN_ID, authority |-> ZeroKey, is_signer |-> FALSE,
     aligned |-> TRUE, len |-> 0, amount |-> 0, lim_x |-> 0, lim_y |-> 0,
     min |-> 0, is_x_byte |-> 0, is_x |-> FALSE, is_x_if |-> FALSE, expiration |-> 0, clock |-> MaxTime, seed |-> Seed1, fee |-> 0,
     new_authority |-> ZeroKey, status |-> 0]

NoCalc == [x |-> 0, y |-> 0, iaf |-> 0]

Snapshot ==
    [config |-> config, vault_x |-> vault_x, vault_y |-> vault_y,
     user_x |-> user_x, user_y |-> user_y, lp_supply |-> lp_supply]

Fail(stage, err) == [err |-> err, stage |-> stage, issued |-> <<>>, calc |-> NoCalc]

\* the account a caller passes as `config`
ForeignConfig ==
    [owner |-> "other_program", data_len |-> LEN, state |-> Initialized,
     seed |-> Seed1, authority |-> UserKey, mint_x |-> MintX,
     mint_y |-> MintY, fee |-> 0, config_bump |-> Bump]

\* accounts of the caller's making: one of another program, one owned by this
\* program but a byte short, one owned by this program, of the record's length
\* and zero-filled as the system program creates it
ForeignAccount(key) ==
    IF key = ShortConfigKey THEN [ForeignConfig EXCEPT !.owner = ID, !.data_len = LEN - 1]
    ELSE IF key = ZeroedConfigKey THEN [NoAccount EXCEPT !.owner = ID, !.data_len = LEN]
    ELSE ForeignConfig

AccountAt(key) == IF key = PoolKey THEN config ELSE ForeignAccount(key)

\* TokenAccount::from_account_info_unchecked: the account must hold a token account
TokenAccountExists(key) == key \in {PoolVaultX, PoolVaultY, ForeignVaultKey}

\* Mint::from_account_info_unchecked: the pool's LP mint once created, or the
\* mint the caller made
MintAt(a) ==
    IF a.mint_lp = PoolMintLp
    THEN [exists |-> config.owner = ID, supply |-> lp_supply, mint_authority |-> PoolKey]
    ELSE [exists |-> TRUE, supply |-> a.mint_supply, mint_authority |-> a.mint_authority]

NoPrev == [deposit |-> FALSE, own |-> FALSE, supply |-> 0, amount |-> 0,
           x |-> 0, y |-> 0]

Idle ==
    [op |-> "none", err |-> "Ok", stage |-> "done", issued |-> <<>>,
     calc |-> NoCalc, args |-> NoArgs,
     pre |-> [config |-> NoAccount, vault_x |-> 0, vault_y |-> 0,
              user_x |-> 0, user_y |-> 0, lp_supply |-> 0]]

Init ==
    /\ config = NoAccount
    /\ vault_x = 0
    /\ vault_y = 0
    /\ user_x = UserTokens
    /\ user_y = UserTokens
    /\ lp_supply = 0
    /\ last = Idle
    /\ prev = NoPrev

Record(op, a, r) ==
    [op |-> op, err |-> r.err, stage |-> r.stage, issued |-> r.issued,
     calc |-> r.calc, args |-> a, pre |-> Snapshot]

\* the host ends the transaction and takes the next one
NextTransaction ==
    /\ last.op # "none"
    /\ last' = Idle
    /\ prev' = IF last.op = "Deposit" /\ last.err = "Ok"
               THEN [deposit |-> TRUE, own |-> last.args.mint_lp = PoolMintLp,
                     supply |-> last.pre.lp_supply,
                     amount |-> last.args.amount,
                     x |-> last.calc.x, y |-> last.calc.y]
               ELSE NoPrev
    /\ UNCHANGED <<config, vault_x, vault_y, user_x, user_y, lp_supply>>

(***************************************************************************)
(* Initialize (instructions/initialize.rs)                                 *)
(***************************************************************************)
\* InitializeInstructionData::try_from: 108 bytes carry an authority; the
\* second arm's pattern is a fresh binding, so it takes every other length
\* and the slices data[0..8] .. data[75..76] abort on a shorter payload
InitializeDecode(a) ==
    IF a.len = INITIALIZE_DATA_LEN_WITH_AUTHORITY THEN <<"Ok", a.new_authority>>
    ELSE IF a.len < INITIALIZE_DATA_LEN_WITHOUT_AUTHORITY THEN <<"Abort", ZeroKey>>
    ELSE <<"Ok", ZeroKey>>

\* (faulty variant of InitializeRun: the record is written without the
\* CreateAccount of the config address having to succeed)
InitializeRun_without_create(a) ==
    LET d == InitializeDecode(a) IN
    IF ~a.n THEN [r |-> Fail("accounts", "NotEnoughAccountKeys"), cfg |-> config]
    ELSE IF d[1] # "Ok" THEN [r |-> Fail("data", d[1]), cfg |-> config]
    ELSE LET created == [NoAccount EXCEPT !.owner = ID, !.data_len = LEN]
             s == set_inner(created, a.seed, d[2], MintX, MintY, a.fee, Bump)
             c1 == [kind |-> "CreateAccount", from |-> UserKey, to |-> a.config, amount |-> LEN]
             c2 == [kind |-> "CreateAccount", from |-> UserKey, to |-> a.mint_lp, amount |-> 0]
             c3 == [kind |-> "InitializeMint2", from |-> a.config, to |-> a.mint_lp, amount |-> 0]
         IN  IF s.err # "Ok"
             THEN [r |-> [Fail("set_inner", s.err) EXCEPT !.issued = <<c1>>], cfg |-> config]
             ELSE [r |-> [err |-> "Ok", stage |-> "done", issued |-> <<c1, c2, c3>>, calc |-> NoCalc],
                   cfg |-> s.cfg]

\* Initialize::process: CreateAccount(config), set_inner, CreateAccount(mint_lp),
\* InitializeMint2
InitializeRun(a) ==
    LET d == InitializeDecode(a) IN
    IF ~a.n THEN [r |-> Fail("accounts", "NotEnoughAccountKeys"), cfg |-> config]
    ELSE IF d[1] # "Ok" THEN [r |-> Fail("data", d[1]), cfg |-> config]
    ELSE IF \/ config.owner # SYSTEM_ID
            \/ ConfigAddress(a.seed, MintX, MintY, Bump) # a.config
         THEN [r |-> [Fail("cpi", "SystemError") EXCEPT !.issued = <<[kind |-> "CreateAccount", from |-> UserKey, to |-> a.config, amount |-> LEN]>>],
               cfg |-> config]
    ELSE LET created == [NoAccount EXCEPT !.owner = ID, !.data_len = LEN]
             s == set_inner(created, a.seed, d[2], MintX, MintY, a.fee, Bump)
             c1 == [kind |-> "CreateAccount", from |-> UserKey, to |-> a.config, amount |-> LEN]
             c2 == [kind |-> "CreateAccount", from |-> UserKey, to |-> a.mint_lp, amount |-> 0]
             c3 == [kind |-> "InitializeMint2", from |-> a.config, to |-> a.mint_lp, amount |-> 0]
         IN  IF s.err # "Ok"
             THEN [r |-> [Fail("set_inner", s.err) EXCEPT !.issued = <<c1>>], cfg |-> config]
             ELSE IF MintLpAddress(a.config, Bump) # a.mint_lp
             THEN [r |-> [Fail("cpi", "SystemError") EXCEPT !.issued = <<c1, c2>>], cfg |-> config]
             ELSE [r |-> [err |-> "Ok", stage |-> "done", issued |-> <<c1, c2, c3>>, calc |-> NoCalc],
                   cfg |-> s.cfg]

InitializeInputs ==
    { [NoArgs EXCEPT !.n = n, !.len = l, !.seed = sd, !.fee = f, !.new_authority = au]
        : n \in {TRUE}, l \in {75, 76, 77, 108}, sd \in {Seed1, Seed2},
          f \in {0, 30, MAX_FEE_BPS, MAX_FEE_BPS + 1}, au \in {AuthKey} }
    \cup { [NoArgs EXCEPT !.n = FALSE, !.len = 76] }

Initialize ==
    \E a \in InitializeInputs :
        LET o == InitializeRun(a) IN
        /\ last.op = "none"
        /\ config' = o.cfg
        /\ last' = Record("Initialize", a, o.r)
        /\ UNCHANGED <<vault_x, vault_y, user_x, user_y, lp_supply, prev>>

(***************************************************************************)
(* The checks Deposit, Withdraw and Swap share at the head of process():   *)
(* load the record, require state Initialized, re-derive both vaults.      *)
(***************************************************************************)
\* (faulty variant of StateAllows: only a Disabled pool is refused)
StateAllows_unless_disabled(cfg) == cfg.state # Disabled

\* config.state.ne(&(AmmState::Initialized as u8))
StateAllows(cfg) == cfg.state = Initialized

\* (faulty variant of VaultMatches: the mint is left out of the comparison, so either
\* of the pool's vaults passes for either mint)
VaultMatches_any_mint(a, mint, passed) ==
    passed \in { VaultAddress(a.config, a.token_program, m) : m \in {MintX, MintY} }

\* vault.ne(self.accounts.vault.key())
VaultMatches(a, mint, passed) == VaultAddress(a.config, a.token_program, mint) = passed

ProcessHead(a) ==
    LET cfg == AccountAt(a.config) IN
    IF load(cfg) # "Ok" THEN Fail("load", load(cfg))
    ELSE IF ~StateAllows(cfg) THEN Fail("state", "InvalidAccountData")
    ELSE IF ~VaultMatches(a, cfg.mint_x, a.vault_x) THEN Fail("vault_x", "InvalidAccountData")
    ELSE IF ~VaultMatches(a, cfg.mint_y, a.vault_y) THEN Fail("vault_y", "InvalidAccountData")
    ELSE Fail("head_ok", "Ok")

\* (faulty variant of Invoke: a failed call's error is not propagated at once, so
\* the calls after it are issued as well)
Invoke_ignoring_failures(calls, ok, calc) ==
    IF \A i \in 1..Len(calls) : ok[i]
    THEN [err |-> "Ok", stage |-> "done", issued |-> calls, calc |-> calc]
    ELSE [err |-> "TokenError", stage |-> "cpi", issued |-> calls, calc |-> calc]

\* the token ledger runs the calls in order and stops at the first that fails;
\* ok[i] tells whether call i succeeds given that the earlier ones did
Invoke(calls, ok, calc) ==
    LET bad == { i \in 1..Len(calls) : ~ok[i] } IN
    IF bad = {}
    THEN [err |-> "Ok", stage |-> "done", issued |-> calls, calc |-> calc]
    ELSE LET k == CHOOSE i \in bad : \A j \in bad : i <= j IN
         [err |-> "TokenError", stage |-> "cpi", issued |-> SubSeq(calls, 1, k), calc |-> calc]

(***************************************************************************)
(* Deposit (instructions/deposit.rs)                                       *)
(***************************************************************************)
\* (faulty variant of LiquidityDecode: a zero amount is let through)
LiquidityDecode_zero_amount_allowed(a) ==
    IF a.len # 32 THEN "InvalidInstructionData"
    ELSE IF a.lim_x = 0 \/ a.lim_y = 0 \/ a.expiration < a.clock
         THEN "InvalidInstructionData"
    ELSE "Ok"

\* (faulty variant of LiquidityDecode: an expiration equal to the clock is
\* refused as well)
LiquidityDecode_expires_at_now(a) ==
    IF a.len # 32 THEN "InvalidInstructionData"
    ELSE IF a.amount = 0 \/ a.lim_x = 0 \/ a.lim_y = 0 \/ a.expiration <= a.clock
         THEN "InvalidInstructionData"
    ELSE "Ok"

\* DepositInstructionData::try_from (WithdrawInstructionData::try_from is the same)
LiquidityDecode(a) ==
    IF a.len # 32 THEN "InvalidInstructionData"
    ELSE IF a.amount = 0 \/ a.lim_x = 0 \/ a.lim_y = 0 \/ a.expiration < a.clock
         THEN "InvalidInstructionData"
    ELSE "Ok"

\* (faulty variant of DepositAmounts: the products are taken modulo the word
\* size instead of failing on overflow)
DepositAmounts_wrapping(a, supply) ==
    IF supply = 0 /\ vault_x = 0 /\ vault_y = 0
    THEN [err |-> "Ok", x |-> a.lim_x, y |-> a.lim_y]
    ELSE IF supply = 0 THEN [err |-> "CurveError", x |-> 0, y |-> 0]
    ELSE [err |-> "Ok",
          x |-> CeilDiv((a.amount * vault_x) % (U64_MAX + 1), supply),
          y |-> CeilDiv((a.amount * vault_y) % (U64_MAX + 1), supply)]

\* the amounts to deposit
DepositAmounts(a, supply) ==
    IF supply = 0 /\ vault_x = 0 /\ vault_y = 0
    THEN [err |-> "Ok", x |-> a.lim_x, y |-> a.lim_y]
    ELSE xy_deposit_amounts_from_l(vault_x, vault_y, supply, a.amount)

\* !(x <= max_x && y <= max_y) is rejected
DepositSlippageOk(x, y, max_x, max_y) == x <= max_x /\ y <= max_y

\* the amount handed to MintTo
DepositMintAmount(a) == a.amount

\* (faulty variant of DepositRun: the slippage test comes after the two transfers)
DepositRun_slippage_after_transfers(a) ==
    IF ~a.n THEN Fail("accounts", "NotEnoughAccountKeys")
    ELSE IF LiquidityDecode(a) # "Ok" THEN Fail("data", LiquidityDecode(a))
    ELSE IF ProcessHead(a).err # "Ok" THEN ProcessHead(a)
    ELSE IF ~MintAt(a).exists \/ ~TokenAccountExists(a.vault_x) \/ ~TokenAccountExists(a.vault_y)
         THEN Fail("deserialize", "InvalidAccountData")
    ELSE LET m == MintAt(a)
             am == DepositAmounts(a, m.supply)
             calc == [x |-> am.x, y |-> am.y, iaf |-> 0]
             t1 == [kind |-> "Transfer", from |-> "user_x", to |-> a.vault_x, amount |-> am.x]
             t2 == [kind |-> "Transfer", from |-> "user_y", to |-> a.vault_y, amount |-> am.y]
             t3 == [kind |-> "MintTo", from |-> a.mint_lp, to |-> "user_lp", amount |-> DepositMintAmount(a)]
         IN  IF am.err # "Ok" THEN Fail("curve", "InvalidArgument")
             ELSE IF am.x <= user_x /\ am.y <= user_y
                     /\ ~DepositSlippageOk(am.x, am.y, a.lim_x, a.lim_y)
                  THEN [err |-> "InvalidArgument", stage |-> "slippage",
                        issued |-> <<t1, t2>>, calc |-> calc]
             ELSE Invoke(<<t1, t2, t3>>,
                         <<am.x <= user_x, am.y <= user_y, m.mint_authority = a.config>>,
                         calc)

DepositRun(a) ==
    IF ~a.n THEN Fail("accounts", "NotEnoughAccountKeys")
    ELSE IF LiquidityDecode(a) # "Ok" THEN Fail("data", LiquidityDecode(a))
    ELSE IF ProcessHead(a).err # "Ok" THEN ProcessHead(a)
    ELSE IF ~MintAt(a).exists \/ ~TokenAccountExists(a.vault_x) \/ ~TokenAccountExists(a.vault_y)
         THEN Fail("deserialize", "InvalidAccountData")
    ELSE LET m == MintAt(a)
             am == DepositAmounts(a, m.supply)
             calc == [x |-> am.x, y |-> am.y, iaf |-> 0]
         IN  IF am.err # "Ok" THEN Fail("curve", "InvalidArgument")
             ELSE IF ~DepositSlippageOk(am.x, am.y, a.lim_x, a.lim_y)
                  THEN [Fail("slippage", "InvalidArgument") EXCEPT !.calc = calc]
             ELSE Invoke(<<[kind |-> "Transfer", from |-> "user_x", to |-> a.vault_x, amount |-> am.x],
                           [kind |-> "Transfer", from |-> "user_y", to |-> a.vault_y, amount |-> am.y],
                           [kind |-> "MintTo", from |-> a.mint_lp, to |-> "user_lp", amount |-> DepositMintAmount(a)]>>,
                         <<am.x <= user_x, am.y <= user_y, m.mint_authority = a.config>>,
                         calc)

\* the account lists a caller can pass, by the one account that is not the pool's
AccountLists ==
    { NoArgs,
      [NoArgs EXCEPT !.n = FALSE],
      [NoArgs EXCEPT !.config = ForeignConfigKey,
                     !.vault_x = VaultAddress(ForeignConfigKey, TOKEN_ID, MintX),
                     !.vault_y = VaultAddress(ForeignConfigKey, TOKEN_ID, MintY)],
      [NoArgs EXCEPT !.config = ShortConfigKey],
      [NoArgs EXCEPT !.config = ZeroedConfigKey],
      [NoArgs EXCEPT !.vault_x = ForeignVaultKey],
      [NoArgs EXCEPT !.vault_y = ForeignVaultKey],
      [NoArgs EXCEPT !.vault_x = PoolVaultY, !.vault_y = PoolVaultX],
      [NoArgs EXCEPT !.token_program = TOKEN_2022_ID,
                     !.vault_x = VaultAddress(PoolKey, TOKEN_2022_ID, MintX),
                     !.vault_y = VaultAddress(PoolKey, TOKEN_2022_ID, MintY)] }

\* a mint of the caller's own making passed as mint_lp: the caller picks its
\* supply (all of it the caller's) and its mint authority
ForeignMintLists ==
    { [NoArgs EXCEPT !.mint_lp = ForeignMintKey, !.mint_supply = s, !.mint_authority = au]
        : s \in 0..MaxAmt, au \in {PoolKey, UserKey} }

\* pairs of bounds (max_x, max_y) or (min_x, min_y)
Limits ==
    { <<l, l>> : l \in 0..MaxAmt }
    \cup { <<MaxAmt, 1>>, <<1, MaxAmt>>, <<MaxAmt, 0>>, <<0, MaxAmt>> }

\* amounts near the top of the unsigned range: half of it and its maximum
BigAmounts == {2^(U64_BITS - 1), U64_MAX}

\* payloads: every amount with the pool's own accounts, one with the others
LiquidityInputs ==
    { [NoArgs EXCEPT !.len = 32, !.amount = am, !.lim_x = l[1], !.lim_y = l[2], !.expiration = MaxTime]
        : am \in 0..MaxAmt, l \in Limits }
    \cup { [NoArgs EXCEPT !.len = 32, !.amount = 1, !.lim_x = MaxAmt, !.lim_y = MaxAmt,
                          !.expiration = e, !.clock = c]
            : e \in 1..MaxTime, c \in 1..MaxTime }
    \cup { [NoArgs EXCEPT !.len = 31, !.amount = 1, !.lim_x = MaxAmt, !.lim_y = MaxAmt, !.expiration = MaxTime] }
    \cup { [acc EXCEPT !.len = 32, !.amount = 1, !.lim_x = MaxAmt, !.lim_y = MaxAmt, !.expiration = MaxTime]
        : acc \in AccountLists \ {NoArgs} }
    \cup { [acc EXCEPT !.len = 32, !.amount = am, !.lim_x = MaxAmt, !.lim_y = MaxAmt, !.expiration = MaxTime]
        : acc \in ForeignMintLists, am \in {1, MaxAmt} }
    \cup { [acc EXCEPT !.len = 32, !.amount = am, !.lim_x = MaxAmt, !.lim_y = MaxAmt, !.expiration = MaxTime]
        : acc \in {NoArgs, [NoArgs EXCEPT !.mint_lp = ForeignMintKey, !.mint_supply = 1]},
          am \in BigAmounts }

Deposit ==
    \E a \in LiquidityInputs :
        LET r == DepositRun(a)
            ok == r.err = "Ok"
            own == a.mint_lp = PoolMintLp
        IN  /\ last.op = "none"
            /\ ok /\ own => lp_supply + a.amount <= MaxLp
            /\ vault_x' = IF ok THEN vault_x + r.issued[1].amount ELSE vault_x
            /\ user_x' = IF ok THEN user_x - r.issued[1].amount ELSE user_x
            /\ vault_y' = IF ok THEN vault_y + r.issued[2].amount ELSE vault_y
            /\ user_y' = IF ok THEN user_y - r.issued[2].amount ELSE user_y
            /\ lp_supply' = IF ok /\ own THEN lp_supply + r.issued[3].amount ELSE lp_supply
            /\ last' = Record("Deposit", a, r)
            /\ UNCHANGED <<config, prev>>

(***************************************************************************)
(* Withdraw (instructions/withdraw.rs)                                     *)
(***************************************************************************)
\* the amounts to pay out
WithdrawAmounts(a, supply) ==
    IF supply = a.amount
    THEN [err |-> "Ok", x |-> vault_x, y |-> vault_y]
    ELSE xy_withdraw_amounts_from_l(vault_x, vault_y, supply, a.amount)

\* !(x <= min_x && y <= min_y) is rejected
WithdrawSlippageOk(x, y, min_x, min_y) == x <= min_x /\ y <= min_y

\* the amount handed to Burn
WithdrawBurnAmount(a) == a.amount

WithdrawRun(a) ==
    IF ~a.n THEN Fail("accounts", "NotEnoughAccountKeys")
    ELSE IF LiquidityDecode(a) # "Ok" THEN Fail("data", LiquidityDecode(a))
    ELSE IF ProcessHead(a).err # "Ok" THEN ProcessHead(a)
    ELSE IF ~MintAt(a).exists \/ ~TokenAccountExists(a.vault_x) \/ ~TokenAccountExists(a.vault_y)
         THEN Fail("deserialize", "InvalidAccountData")
    ELSE LET m == MintAt(a)
             am == WithdrawAmounts(a, m.supply)
             calc == [x |-> am.x, y |-> am.y, iaf |-> 0]
         IN  IF am.err # "Ok" THEN Fail("curve", "InvalidArgument")
             ELSE IF ~WithdrawSlippageOk(am.x, am.y, a.lim_x, a.lim_y)
                  THEN [Fail("slippage", "InvalidArgument") EXCEPT !.calc = calc]
             ELSE Invoke(<<[kind |-> "Transfer", from |-> a.vault_x, to |-> "user_x", amount |-> am.x],
                           [kind |-> "Transfer", from |-> a.vault_y, to |-> "user_y", amount |-> am.y],
                           [kind |-> "Burn", from |-> a.mint_lp, to |-> "user_lp", amount |-> WithdrawBurnAmount(a)]>>,
                         <<am.x <= vault_x, am.y <= vault_y, WithdrawBurnAmount(a) <= m.supply>>,
                         calc)

Withdraw ==
    \E a \in LiquidityInputs :
        LET r == WithdrawRun(a)
            ok == r.err = "Ok"
            own == a.mint_lp = PoolMintLp
        IN  /\ last.op = "none"
            /\ vault_x' = IF ok THEN vault_x - r.issued[1].amount ELSE vault_x
            /\ user_x' = IF ok THEN user_x + r.issued[1].amount ELSE user_x
            /\ vault_y' = IF ok THEN vault_y - r.issued[2].amount ELSE vault_y
            /\ user_y' = IF ok THEN user_y + r.issued[2].amount ELSE user_y
            /\ lp_supply' = IF ok /\ own THEN lp_supply - r.issued[3].amount ELSE lp_supply
            /\ last' = Record("Withdraw", a, r)
            /\ UNCHANGED <<config, prev>>

(***************************************************************************)
(* Swap (instructions/swap.rs)                                             *)
(***************************************************************************)
\* SwapInstructionData::try_from
SwapDecode(a) ==
    IF a.len # 25 THEN "InvalidInstructionData"
    ELSE IF a.amount = 0 \/ a.min = 0 \/ a.expiration < a.clock THEN "InvalidInstructionData"
    ELSE "Ok"

\* the payload's first byte is read as a bool: 0 is false and 1 is true; any
\* other byte is no bool, and what `match is_x` (a.is_x) and `if is_x`
\* (a.is_x_if) then take it for is left open, each on its own
IsXReadings(byte) ==
    IF byte = 0 THEN {<<FALSE, FALSE>>}
    ELSE IF byte = 1 THEN {<<TRUE, TRUE>>}
    ELSE BOOLEAN \X BOOLEAN

\* (faulty variant of SwapRun: the curve is not given the caller's min)
SwapRun_ignores_min(a) ==
    IF ~a.n THEN Fail("accounts", "NotEnoughAccountKeys")
    ELSE IF SwapDecode(a) # "Ok" THEN Fail("data", SwapDecode(a))
    ELSE IF ProcessHead(a).err # "Ok" THEN ProcessHead(a)
    ELSE IF ~TokenAccountExists(a.vault_x) \/ ~TokenAccountExists(a.vault_y)
         THEN Fail("deserialize", "InvalidAccountData")
    ELSE LET curve == init(vault_x, vault_y, vault_x, AccountAt(a.config).fee)
             res == swap(curve, a.is_x, a.amount, 0)
             calc == [x |-> res.deposit, y |-> res.withdraw, iaf |-> res.iaf]
         IN  IF res.err # "Ok" THEN [Fail("curve", "Custom1") EXCEPT !.calc = calc]
             ELSE IF res.deposit = 0 \/ res.withdraw = 0
                  THEN [Fail("zero", "InvalidArgument") EXCEPT !.calc = calc]
             ELSE IF a.is_x_if
                  THEN Invoke(<<[kind |-> "Transfer", from |-> "user_x", to |-> a.vault_x, amount |-> res.deposit],
                                [kind |-> "Transfer", from |-> a.vault_y, to |-> "user_y", amount |-> res.withdraw]>>,
                              <<res.deposit <= user_x, res.withdraw <= vault_y>>, calc)
                  ELSE Invoke(<<[kind |-> "Transfer", from |-> "user_y", to |-> a.vault_y, amount |-> res.deposit],
                                [kind |-> "Transfer", from |-> a.vault_x, to |-> "user_x", amount |-> res.withdraw]>>,
                              <<res.deposit <= user_y, res.withdraw <= vault_x>>, calc)

SwapRun(a) ==
    IF ~a.n THEN Fail("accounts", "NotEnoughAccountKeys")
    ELSE IF SwapDecode(a) # "Ok" THEN Fail("data", SwapDecode(a))
    ELSE IF ProcessHead(a).err # "Ok" THEN ProcessHead(a)
    ELSE IF ~TokenAccountExists(a.vault_x) \/ ~TokenAccountExists(a.vault_y)
         THEN Fail("deserialize", "InvalidAccountData")
    ELSE LET curve == init(vault_x, vault_y, vault_x, AccountAt(a.config).fee)
             res == swap(curve, a.is_x, a.amount, a.min)
             calc == [x |-> res.deposit, y |-> res.withdraw, iaf |-> res.iaf]
         IN  IF res.err # "Ok" THEN [Fail("curve", "Custom1") EXCEPT !.calc = calc]
             ELSE IF res.deposit = 0 \/ res.withdraw = 0
                  THEN [Fail("zero", "InvalidArgument") EXCEPT !.calc = calc]
             ELSE IF a.is_x_if
                  THEN Invoke(<<[kind |-> "Transfer", from |-> "user_x", to |-> a.vault_x, amount |-> res.deposit],
                                [kind |-> "Transfer", from |-> a.vault_y, to |-> "user_y", amount |-> res.withdraw]>>,
                              <<res.deposit <= user_x, res.withdraw <= vault_y>>, calc)
                  ELSE Invoke(<<[kind |-> "Transfer", from |-> "user_y", to |-> a.vault_y, amount |-> res.deposit],
                                [kind |-> "Transfer", from |-> a.vault_x, to |-> "user_x", amount |-> res.withdraw]>>,
                              <<res.deposit <= user_y, res.withdraw <= vault_x>>, calc)

SwapPayload(byte, am, mn, e, c) ==
    { [NoArgs EXCEPT !.len = 25, !.is_x_byte = byte, !.is_x = rd[1], !.is_x_if = rd[2],
                     !.amount = am, !.min = mn, !.expiration = e, !.clock = c]
        : rd \in IsXReadings(byte) }

SwapInputs ==
    UNION { SwapPayload(b, am, mn, MaxTime, MaxTime) : b \in {0, 1}, am \in 0..MaxAmt, mn \in 0..MaxAmt }
    \cup SwapPayload(2, 1, 1, MaxTime, MaxTime)
    \cup UNION { SwapPayload(1, am, 1, MaxTime, MaxTime) : am \in BigAmounts }
    \cup UNION { SwapPayload(1, 1, 1, e, c) : e \in 1..MaxTime, c \in 1..MaxTime }
    \cup { [NoArgs EXCEPT !.len = 24, !.is_x_byte = 1, !.is_x = TRUE, !.is_x_if = TRUE,
                          !.amount = 1, !.min = 1, !.expiration = MaxTime] }
    \cup { [acc EXCEPT !.len = 25, !.is_x_byte = 1, !.is_x = TRUE, !.is_x_if = TRUE,
                       !.amount = 1, !.min = 1, !.expiration = MaxTime]
        : acc \in AccountLists \ {NoArgs} }

Swap ==
    \E a \in SwapInputs :
        LET r == SwapRun(a)
            ok == r.err = "Ok"
            dx == IF ~ok THEN 0 ELSE IF a.is_x_if THEN r.calc.x ELSE 0 - r.calc.y
            dy == IF ~ok THEN 0 ELSE IF a.is_x_if THEN 0 - r.calc.y ELSE r.calc.x
        IN  /\ last.op = "none"
            /\ vault_x' = vault_x + dx
            /\ user_x' = user_x - dx
            /\ vault_y' = vault_y + dy
            /\ user_y' = user_y - dy
            /\ last' = Record("Swap", a, r)
            /\ UNCHANGED <<config, lp_supply, prev>>

(***************************************************************************)
(* UpdateConfig (instructions/update_config.rs)                            *)
(***************************************************************************)
\* UpdateConfigAccounts::try_from.  has_authority reads the 32 authority
\* bytes, which lie at offset 9 of the account data, through a &[u64; 4]:
\* the read either yields the bytes' value or, in a build that checks
\* alignment, aborts the program (a.aligned tells which).
UpdateConfigAccounts(a) ==
    LET cfg == AccountAt(a.config) IN
    IF ~a.n THEN Fail("accounts", "NotEnoughAccountKeys")
    ELSE IF load(cfg) # "Ok" THEN Fail("load", load(cfg))
    ELSE IF ~a.aligned THEN Fail("has_authority", "Abort")
    ELSE IF has_authority(cfg) # <<"Some", a.authority>> THEN Fail("authority", "InvalidAccountData")
    ELSE IF ~a.is_signer THEN Fail("signer", "InvalidAccountData")
    ELSE Fail("accounts_ok", "Ok")

\* (faulty variant of UpdateConfigStatusDecode: only values above WithdrawOnly
\* are refused)
UpdateConfigStatusDecode_no_lower_bound(a) ==
    IF a.len # 1 THEN "InvalidInstructionData"
    ELSE IF a.status > WithdrawOnly THEN "InvalidInstructionData"
    ELSE "Ok"

\* UpdateConfigStatusInstructionData::try_from
UpdateConfigStatusDecode(a) ==
    IF a.len # 1 THEN "InvalidInstructionData"
    ELSE IF a.status = Uninitialized \/ a.status = Initialized \/ a.status > WithdrawOnly
         THEN "InvalidInstructionData"
    ELSE "Ok"

\* UpdateConfigFeeInstructionData::try_from
UpdateConfigFeeDecode(a) == IF a.len # 2 THEN "InvalidInstructionData" ELSE "Ok"

\* UpdateConfigAuthorityInstructionData::try_from
UpdateConfigAuthorityDecode(a) == IF a.len # 32 THEN "InvalidInstructionData" ELSE "Ok"

\* process_update_status: decodes the payload and returns; the record is not written
process_update_status(a, cfg) ==
    [err |-> UpdateConfigStatusDecode(a), cfg |-> cfg]

\* process_update_fee: decodes the payload and returns; the record is not written
process_update_fee(a, cfg) ==
    [err |-> UpdateConfigFeeDecode(a), cfg |-> cfg]

\* process_update_authority: decodes the payload and returns; the record is not written
process_update_authority(a, cfg) ==
    [err |-> UpdateConfigAuthorityDecode(a), cfg |-> cfg]

\* UpdateConfig::process: the variant is chosen by the payload's length
UpdateConfigProcess(a, cfg) ==
    IF a.len = 1 THEN process_update_status(a, cfg)
    ELSE IF a.len = 2 THEN process_update_fee(a, cfg)
    ELSE IF a.len = 32 THEN process_update_authority(a, cfg)
    ELSE [err |-> "InvalidInstructionData", cfg |-> cfg]

UpdateConfigRun(a) ==
    LET acc == UpdateConfigAccounts(a) IN
    IF acc.err # "Ok" THEN [r |-> acc, cfg |-> config]
    ELSE LET o == UpdateConfigProcess(a, config) IN
         IF o.err # "Ok" THEN [r |-> Fail("data", o.err), cfg |-> config]
         ELSE [r |-> Fail("done", "Ok"), cfg |-> o.cfg]

UpdateConfigPayloads ==
    { [NoArgs EXCEPT !.len = 1, !.status = st] : st \in 0..4 }
    \cup { [NoArgs EXCEPT !.len = 2, !.fee = f] : f \in {30, MAX_FEE_BPS} }
    \cup { [NoArgs EXCEPT !.len = 32, !.new_authority = UserKey],
           [NoArgs EXCEPT !.len = 3] }

UpdateConfigInputs ==
    { [p EXCEPT !.authority = AuthKey, !.is_signer = TRUE] : p \in UpdateConfigPayloads }
    \cup { [NoArgs EXCEPT !.len = 1, !.status = Disabled, !.authority = k,
                          !.is_signer = sg, !.aligned = al]
            : k \in {AuthKey, UserKey, ZeroKey}, sg \in BOOLEAN, al \in BOOLEAN }
    \cup { [NoArgs EXCEPT !.len = 1, !.status = Disabled, !.authority = UserKey,
                          !.is_signer = TRUE, !.config = k]
            : k \in {ForeignConfigKey, ShortConfigKey, ZeroedConfigKey} }
    \cup { [NoArgs EXCEPT !.len = 1, !.status = Disabled, !.authority = AuthKey,
                          !.is_signer = TRUE, !.n = FALSE] }

UpdateConfig ==
    \E a \in UpdateConfigInputs :
        LET o == UpdateConfigRun(a) IN
        /\ last.op = "none"
        /\ config' = o.cfg
        /\ last' = Record("UpdateConfig", a, o.r)
        /\ UNCHANGED <<vault_x, vault_y, user_x, user_y, lp_supply, prev>>

Next ==
    \/ NextTransaction
    \/ Initialize
    \/ Deposit
    \/ Withdraw
    \/ Swap
    \/ UpdateConfig

Spec == Init /\ [][Next]_vars

(***************************************************************************)
(* A second specification for the claims about the record's state byte:   *)
(* it starts from no pool at all or from a pool whose record carries any   *)
(* of the four AmmState values.                                            *)
(***************************************************************************)
PoolRecord(state) ==
    [owner |-> ID, data_len |-> LEN, state |-> state, seed |-> Seed1,
     authority |-> AuthKey, mint_x |-> MintX, mint_y |-> MintY, fee |-> 0,
     config_bump |-> Bump]

InitAnyState ==
    /\ config \in {NoAccount} \cup { PoolRecord(st) : st \in Uninitialized..WithdrawOnly }
    /\ vault_x = 0
    /\ vault_y = 0
    /\ user_x = UserTokens
    /\ user_y = UserTokens
    /\ lp_supply = 0
    /\ last = Idle
    /\ prev = NoPrev

SpecAnyState == InitAnyState /\ [][Next]_vars

(***************************************************************************)
(* A third specification for the claims about the record's setters taken   *)
(* as functions: set_state and set_fee are applied to a record in any of   *)
(* the four AmmState values, with any one-byte state and any 16-bit fee    *)
(* drawn from the sets below.                                              *)
(***************************************************************************)
\* values of the `state: u8` argument
StateInputs == Uninitialized..(WithdrawOnly + 2) \cup {255}

\* values of the `fee: u16` argument
FeeInputs == {0, 1, 30, MAX_FEE_BPS - 1, MAX_FEE_BPS, MAX_FEE_BPS + 1, 65535}

Returned(err) == [err |-> err, stage |-> "done", issued |-> <<>>, calc |-> NoCalc]

\* one call of Config::set_state on the record
SetState ==
    \E v \in StateInputs :
        LET s == set_state(config, v) IN
        /\ last.op = "none"
        /\ config' = s.cfg
        /\ last' = Record("set_state", [NoArgs EXCEPT !.status = v], Returned(s.err))
        /\ UNCHANGED <<vault_x, vault_y, user_x, user_y, lp_supply, prev>>

\* one call of Config::set_fee on the record
SetFee ==
    \E f \in FeeInputs :
        LET s == set_fee(config, f) IN
        /\ last.op = "none"
        /\ config' = s.cfg
        /\ last' = Record("set_fee", [NoArgs EXCEPT !.fee = f], Returned(s.err))
        /\ UNCHANGED <<vault_x, vault_y, user_x, user_y, lp_supply, prev>>

InitSetters ==
    /\ config \in { PoolRecord(st) : st \in Uninitialized..WithdrawOnly }
    /\ vault_x = 0
    /\ vault_y = 0
    /\ user_x = UserTokens
    /\ user_y = UserTokens
    /\ lp_supply = 0
    /\ last = Idle
    /\ prev = NoPrev

NextSetters == NextTransaction \/ SetState \/ SetFee

SpecSetters == InitSetters /\ [][NextSetters]_vars

(***************************************************************************)
(* A fourth specification for the claims about tokens sent directly to a   *)
(* vault before the first deposit: the vaults are the associated token     *)
(* accounts of the config address, which anyone can create and pay into,   *)
(* so the program starts with no pool and with a vault already holding     *)
(* some of the user's tokens.                                              *)
(***************************************************************************)
\* the amounts (x, y) sent to the two vaults
Donations == {<<1, 0>>, <<0, 2>>, <<1, 1>>}

InitDonated ==
    \E d \in Donations :
        /\ config = NoAccount
        /\ vault_x = d[1]
        /\ vault_y = d[2]
        /\ user_x = UserTokens - d[1]
        /\ user_y = UserTokens - d[2]
        /\ lp_supply = 0
        /\ last = Idle
        /\ prev = NoPrev

SpecDonated == InitDonated /\ [][Next]_vars

(***************************************************************************)
(* The opcode byte of each instruction (its DISCRIMINATOR constant) and    *)
(* the processors the dispatcher's match on the leading byte can select.   *)
(***************************************************************************)
Initialize_DISCRIMINATOR == 0
Deposit_DISCRIMINATOR == 1
Withdraw_DISCRIMINATOR == 2
Swap_DISCRIMINATOR == 3
UpdateConfig_DISCRIMINATOR == 3

Instructions == {"Initialize", "Deposit", "Withdraw", "Swap", "UpdateConfig"}

DISCRIMINATOR(op) ==
    CASE op = "Initialize" -> Initialize_DISCRIMINATOR
      [] op = "Deposit" -> Deposit_DISCRIMINATOR
      [] op = "Withdraw" -> Withdraw_DISCRIMINATOR
      [] op = "Swap" -> Swap_DISCRIMINATOR
      [] op = "UpdateConfig" -> UpdateConfig_DISCRIMINATOR

\* the processors whose DISCRIMINATOR is the leading byte
Routed(byte) == { op \in Instructions : DISCRIMINATOR(op) = byte }

(***************************************************************************)
(* What the claims speak of, read off the record of the last instruction.  *)
(***************************************************************************)
Liquidity == {"Deposit", "Withdraw"}
Trading == {"Deposit", "Withdraw", "Swap"}

\* the handler got past the account list and the payload decode into process()
Processed == last.stage \notin {"accounts", "data"}

\* the record behind the config account the caller passed
PassedRecord == IF last.args.config = PoolKey THEN last.pre.config ELSE ForeignAccount(last.args.config)

\* the addresses process() derives for the two vaults
DerivedVaultX == VaultAddress(last.args.config, last.args.token_program, PassedRecord.mint_x)
DerivedVaultY == VaultAddress(last.args.config, last.args.token_program, PassedRecord.mint_y)

LedgerUnchanged ==
    /\ vault_x = last.pre.vault_x
    /\ vault_y = last.pre.vault_y
    /\ user_x = last.pre.user_x
    /\ user_y = last.pre.user_y
    /\ lp_supply = last.pre.lp_supply

RecordUnchanged == config = last.pre.config

\* the end of an issued transfer that is not the user's own token account
VaultEnd(c) == IF c.from \in {"user_x", "user_y"} THEN c.to ELSE c.from
UserEnd(c) == IF c.from \in {"user_x", "user_y"} THEN c.from ELSE c.to

(***************************************************************************)
(* C1: whenever process() of Deposit, Withdraw or Swap runs with a vault_x  *)
(* (vault_y) account that is not the address derived from the config       *)
(* account's key, the token program's key and the record's mint_x (mint_y), *)
(* it returns InvalidAccountData having issued no call; and every transfer  *)
(* any of them issues has the derived vault of the token's mint at its      *)
(* vault end.                                                               *)
(***************************************************************************)
C1_VaultsAreDerived ==
    last.op \in Trading /\ Processed =>
        /\ (last.args.vault_x # DerivedVaultX \/ last.args.vault_y # DerivedVaultY)
              => last.err = "InvalidAccountData" /\ last.issued = <<>> /\ LedgerUnchanged
        /\ \A i \in 1..Len(last.issued) :
              last.issued[i].kind = "Transfer" =>
                  VaultEnd(last.issued[i]) =
                      IF UserEnd(last.issued[i]) = "user_x" THEN DerivedVaultX ELSE DerivedVaultY

\* a Deposit, Withdraw or Swap on an initialized pool stopped at a vault check
C1_Witness ==
    /\ last.op \in Trading
    /\ last.pre.config.state = Initialized
    /\ last.stage \in {"vault_x", "vault_y"}
    /\ last.args.vault_x = PoolVaultY

(***************************************************************************)
(* C2: Deposit and Withdraw accept as mint_lp only the pool's own LP mint:  *)
(* a call that passes another mint does not succeed, and a successful       *)
(* Withdraw burns the pool's own LP tokens.                                 *)
(***************************************************************************)
C2_OnlyPoolMint ==
    last.op \in Liquidity /\ last.args.mint_lp # PoolMintLp => last.err # "Ok"

(***************************************************************************)
(* C3: whenever process() of Deposit, Withdraw or Swap runs on the pool's   *)
(* config account while the record's state is not Initialized, it returns   *)
(* InvalidAccountData having issued no call, and the vault balances, the    *)
(* user's balances and the LP supply are what they were.                    *)
(***************************************************************************)
C3_OnlyInitializedTrades ==
    /\ last.op \in Trading
    /\ Processed
    /\ last.args.config = PoolKey
    /\ last.pre.config.state # Initialized
    => last.err = "InvalidAccountData" /\ last.issued = <<>> /\ LedgerUnchanged

\* a Swap refused on a record that is there and WithdrawOnly
C3_Witness ==
    /\ last.op = "Swap"
    /\ last.stage = "state"
    /\ last.pre.config.state = WithdrawOnly

(***************************************************************************)
(* C4: after a successful UpdateConfig by the stored authority with the     *)
(* one-byte payload Disabled, the record's state is Disabled (so that       *)
(* every later Swap fails).                                                 *)
(***************************************************************************)
C4_DisableTakesEffect ==
    /\ last.op = "UpdateConfig"
    /\ last.err = "Ok"
    /\ last.args.len = 1
    /\ last.args.status = Disabled
    => config.state = Disabled

(***************************************************************************)
(* C5: for every successful Swap on reserves (x, y) with fee f and input a, *)
(* with input_after_fee = floor(a * (10000 - f) / 10000) and                *)
(* output = reserve_out - floor(x * y / (reserve_in + input_after_fee)),    *)
(* (reserve_in + input_after_fee) * (reserve_out - output) >= x * y, and    *)
(* the product of the two vault balances is not less than before.           *)
(***************************************************************************)
C5_SwapKeepsProduct ==
    last.op = "Swap" /\ last.err = "Ok" =>
        LET x    == last.pre.vault_x
            y    == last.pre.vault_y
            rin  == IF last.args.is_x THEN x ELSE y
            rout == IF last.args.is_x THEN y ELSE x
            iaf  == (last.args.amount * (10000 - last.pre.config.fee)) \div 10000
            out  == rout - ((x * y) \div (rin + iaf))
        IN  /\ (rin + iaf) * (rout - out) >= x * y
            /\ vault_x * vault_y >= x * y

(***************************************************************************)
(* C6: Withdraw treats min_x and min_y as floors: once the amounts x', y'   *)
(* are computed it fails with InvalidArgument, issuing no call, whenever    *)
(* x' < min_x or y' < min_y, and it is not rejected for slippage when       *)
(* x' >= min_x and y' >= min_y.                                             *)
(***************************************************************************)
C6_MinIsAFloor ==
    last.op = "Withdraw" /\ last.stage \in {"slippage", "cpi", "done"} =>
        /\ (last.calc.x < last.args.lim_x \/ last.calc.y < last.args.lim_y)
              => last.err = "InvalidArgument" /\ last.issued = <<>>
        /\ (last.calc.x >= last.args.lim_x /\ last.calc.y >= last.args.lim_y)
              => last.stage # "slippage"

(***************************************************************************)
(* C7: for every Deposit that gets to compute its amounts on a pool with LP *)
(* supply s > 0, requested amount L and reserves (x, y): with               *)
(* x' = ceil(L*x/s) and y' = ceil(L*y/s), it fails with InvalidArgument     *)
(* and issues no call if x' > max_x or y' > max_y; and if it succeeds it    *)
(* takes exactly x' and y' from the caller and the pool's LP supply grows   *)
(* by exactly L.                                                            *)
(***************************************************************************)
C7_DepositIsProportional ==
    /\ last.op = "Deposit"
    /\ last.stage \in {"curve", "slippage", "cpi", "done"}
    /\ last.pre.lp_supply > 0
    =>  LET s  == last.pre.lp_supply
            L  == last.args.amount
            x1 == CeilDiv(L * last.pre.vault_x, s)
            y1 == CeilDiv(L * last.pre.vault_y, s)
        IN  /\ (x1 > last.args.lim_x \/ y1 > last.args.lim_y)
                  => last.err = "InvalidArgument" /\ last.issued = <<>>
            /\ last.err = "Ok" =>
                  /\ vault_x = last.pre.vault_x + x1 /\ user_x = last.pre.user_x - x1
                  /\ vault_y = last.pre.vault_y + y1 /\ user_y = last.pre.user_y - y1
                  /\ L * last.pre.vault_x <= x1 * s /\ x1 * s <= L * last.pre.vault_x + s - 1
                  /\ L * last.pre.vault_y <= y1 * s /\ y1 * s <= L * last.pre.vault_y + s - 1
                  /\ lp_supply = s + L

(***************************************************************************)
(* C8: for every successful Withdraw of L from a pool with LP supply s and  *)
(* reserves (x, y): if L = s the amounts paid out are exactly (x, y),       *)
(* otherwise they are floor(L*x/s) and floor(L*y/s); in both cases exactly  *)
(* L of the pool's LP tokens are burned.                                    *)
(***************************************************************************)
C8_WithdrawIsProportional ==
    last.op = "Withdraw" /\ last.err = "Ok" =>
        LET s  == last.pre.lp_supply
            L  == last.args.amount
            px == last.pre.vault_x - vault_x
            py == last.pre.vault_y - vault_y
        IN  /\ IF L = s THEN px = last.pre.vault_x /\ py = last.pre.vault_y
               ELSE /\ s > 0
                    /\ px = (L * last.pre.vault_x) \div s
                    /\ py = (L * last.pre.vault_y) \div s
            /\ px * s <= L * last.pre.vault_x
            /\ py * s <= L * last.pre.vault_y
            /\ lp_supply = s - L

(***************************************************************************)
(* C9: when a successful Deposit of L on a pool with LP supply s > 0 is     *)
(* followed, with no instruction between, by a successful Withdraw of the   *)
(* same L, the Withdraw pays out no more of either token than the Deposit   *)
(* took.                                                                    *)
(***************************************************************************)
C9_RoundTripFavoursPool ==
    /\ last.op = "Withdraw"
    /\ last.err = "Ok"
    /\ prev.deposit
    /\ prev.supply > 0
    /\ prev.amount = last.args.amount
    => /\ last.pre.vault_x - vault_x <= prev.x
       /\ last.pre.vault_y - vault_y <= prev.y

(***************************************************************************)
(* C10: UpdateConfig, given its two accounts, succeeds only if the record's *)
(* stored authority is non-zero, the first account's key equals it and that *)
(* account signed; in every other case it fails and the record keeps every  *)
(* field, the error being InvalidAccountData whenever the read of the       *)
(* authority bytes in has_authority completes.                              *)
(***************************************************************************)
C10_Authorized ==
    /\ PassedRecord.authority # ZeroKey
    /\ last.args.authority = PassedRecord.authority
    /\ last.args.is_signer

C10_UpdateConfigIsGated ==
    last.op = "UpdateConfig" /\ last.args.n =>
        /\ last.err = "Ok" => C10_Authorized /\ load(PassedRecord) = "Ok"
        /\ ~C10_Authorized =>
              /\ last.err # "Ok"
              /\ RecordUnchanged
              /\ last.args.aligned => last.err = "InvalidAccountData"

\* the stored authority itself passes as first account, but has not signed
C10_Witness ==
    /\ last.op = "UpdateConfig"
    /\ last.stage = "signer"
    /\ last.args.authority = AuthKey
    /\ last.pre.config.authority = AuthKey

(***************************************************************************)
(* C11: a pool whose stored authority is all-zero has an immutable         *)
(* configuration: its state is the Initialized that Initialize wrote, no   *)
(* instruction changes any field of the record, and no UpdateConfig on it  *)
(* succeeds, whatever key the caller passes as authority (the all-zero key *)
(* included) and whether or not it signed.                                 *)
(***************************************************************************)
C11_NoAuthorityIsImmutable ==
    /\ config.owner = ID /\ config.authority = ZeroKey => config.state = Initialized
    /\ /\ last.op # "none"
       /\ last.pre.config.owner = ID
       /\ last.pre.config.authority = ZeroKey
       => /\ config = last.pre.config
          /\ last.op = "UpdateConfig" /\ last.args.config = PoolKey => last.err # "Ok"

\* the all-zero key, signing, asks to disable a pool that has no authority
C11_Witness ==
    /\ last.op = "UpdateConfig"
    /\ last.pre.config.owner = ID
    /\ last.pre.config.authority = ZeroKey
    /\ last.args.authority = ZeroKey
    /\ last.args.is_signer
    /\ last.args.aligned
    /\ last.stage = "authority"

(***************************************************************************)
(* C12: a successful UpdateConfig with a 2-byte payload leaves the record  *)
(* with its fee set to the payload's value, and one with a 32-byte payload *)
(* leaves it with its authority set to the payload's value; every other    *)
(* field of the record is what it was.                                     *)
(***************************************************************************)
C12_UpdateSetsOneField ==
    last.op = "UpdateConfig" /\ last.err = "Ok" =>
        /\ last.args.len = 2
              => config = [last.pre.config EXCEPT !.fee = last.args.fee]
        /\ last.args.len = 32
              => config = [last.pre.config EXCEPT !.authority = last.args.new_authority]

(***************************************************************************)
(* C13: on a record whose state is Initialized, Disabled or WithdrawOnly,  *)
(* an UpdateConfig by the stored authority (its key passed and signing)    *)
(* whose 1-byte payload names Initialized, Disabled or WithdrawOnly        *)
(* succeeds and leaves the record in the named state.                      *)
(***************************************************************************)
C13_StatusMovesFreely ==
    /\ last.op = "UpdateConfig"
    /\ last.args.n
    /\ last.args.aligned
    /\ last.args.config = PoolKey
    /\ load(last.pre.config) = "Ok"
    /\ C10_Authorized
    /\ last.pre.config.state \in {Initialized, Disabled, WithdrawOnly}
    /\ last.args.len = 1
    /\ last.args.status \in {Initialized, Disabled, WithdrawOnly}
    => last.err = "Ok" /\ config.state = last.args.status

(***************************************************************************)
(* C14: a record that Initialize has created holds one of the states       *)
(* Initialized, Disabled, WithdrawOnly; and an UpdateConfig whose 1-byte   *)
(* payload is 0 or greater than 3 fails and leaves the record unchanged,   *)
(* with InvalidInstructionData when it is the stored authority that        *)
(* submits it (the account checks, which come first, fail with their own   *)
(* code).                                                                  *)
(***************************************************************************)
C14_StateStaysInRange ==
    /\ config.owner = ID => config.state \in {Initialized, Disabled, WithdrawOnly}
    /\ /\ last.op = "UpdateConfig"
       /\ last.args.len = 1
       /\ (last.args.status = Uninitialized \/ last.args.status > WithdrawOnly)
       => /\ last.err # "Ok"
          /\ RecordUnchanged
          /\ /\ last.args.n
             /\ last.args.aligned
             /\ load(PassedRecord) = "Ok"
             /\ C10_Authorized
             => last.err = "InvalidInstructionData"

\* the stored authority submits the state byte 4
C14_Witness ==
    /\ last.op = "UpdateConfig"
    /\ last.args.len = 1
    /\ last.args.status > WithdrawOnly
    /\ last.pre.config.state = Initialized
    /\ last.stage = "data"
    /\ last.err = "InvalidInstructionData"

(***************************************************************************)
(* C15: when a Deposit, Withdraw or Swap fails with an error the program   *)
(* itself raises (account count, payload, expiration, pool state, vault    *)
(* mismatch, account contents, curve, slippage, zero amount), it has       *)
(* issued no transfer, mint or burn; and after any failed Deposit,         *)
(* Withdraw or Swap every balance, the LP supply and the record are what   *)
(* they were.                                                              *)
(***************************************************************************)
C15_FailuresComeFirst ==
    last.op \in Trading /\ last.err # "Ok" =>
        /\ last.stage # "cpi" => last.issued = <<>>
        /\ LedgerUnchanged
        /\ RecordUnchanged

\* a Deposit the caller could have paid for is refused for slippage
C15_Witness ==
    /\ last.op = "Deposit"
    /\ last.stage = "slippage"
    /\ last.err = "InvalidArgument"
    /\ last.calc.x > last.args.lim_x
    /\ last.calc.x <= last.pre.user_x
    /\ last.calc.y <= last.pre.user_y

\* the balance an issued transfer draws on, as it stood when the instruction began
SourceBalance(c) ==
    IF c.from = "user_x" THEN last.pre.user_x
    ELSE IF c.from = "user_y" THEN last.pre.user_y
    ELSE IF c.from = last.args.vault_x THEN last.pre.vault_x
    ELSE last.pre.vault_y

(***************************************************************************)
(* C16: the calls one instruction issues come in a fixed order.  Deposit:  *)
(* transfer X from the caller, transfer Y from the caller, mint LP.        *)
(* Withdraw: transfer X to the caller, transfer Y to the caller, burn LP.  *)
(* Swap: transfer the input from the caller to its vault, then the output  *)
(* from the other vault to the caller.  A call is issued only if every     *)
(* transfer before it had the funds to succeed, and a successful           *)
(* instruction has issued them all.                                        *)
(***************************************************************************)
C16_EffectsInOrder ==
    LET n == Len(last.issued) IN
    /\ last.op = "Deposit" =>
          /\ n <= 3
          /\ \A i \in 1..n :
                /\ last.issued[i].kind = <<"Transfer", "Transfer", "MintTo">>[i]
                /\ last.issued[i].from = <<"user_x", "user_y", last.args.mint_lp>>[i]
                /\ last.issued[i].to = <<last.args.vault_x, last.args.vault_y, "user_lp">>[i]
          /\ last.err = "Ok" => n = 3
    /\ last.op = "Withdraw" =>
          /\ n <= 3
          /\ \A i \in 1..n :
                /\ last.issued[i].kind = <<"Transfer", "Transfer", "Burn">>[i]
                /\ last.issued[i].from = <<last.args.vault_x, last.args.vault_y, last.args.mint_lp>>[i]
                /\ last.issued[i].to = <<"user_x", "user_y", "user_lp">>[i]
          /\ last.err = "Ok" => n = 3
    /\ last.op = "Swap" =>
          /\ n <= 2
          /\ \A i \in 1..n : last.issued[i].kind = "Transfer"
          /\ n >= 1 =>
                \/ last.issued[1].from = "user_x" /\ last.issued[1].to = last.args.vault_x
                \/ last.issued[1].from = "user_y" /\ last.issued[1].to = last.args.vault_y
          /\ n = 2 =>
                IF last.issued[1].from = "user_x"
                THEN last.issued[2].from = last.args.vault_y /\ last.issued[2].to = "user_y"
                ELSE last.issued[2].from = last.args.vault_x /\ last.issued[2].to = "user_x"
          /\ last.err = "Ok" => n = 2
    /\ last.op \in Trading =>
          \A i \in 1..n :
              \A j \in 1..(i - 1) :
                  last.issued[j].kind = "Transfer"
                      => last.issued[j].amount <= SourceBalance(last.issued[j])

\* a Deposit whose first transfer the caller cannot pay stops there
C16_Witness ==
    /\ last.op = "Deposit"
    /\ last.stage = "cpi"
    /\ Len(last.issued) = 1
    /\ last.issued[1].amount > last.pre.user_x

\* the payload is of the right length and none of its amounts is zero
WellFormedPayload ==
    IF last.op = "Swap"
    THEN last.args.len = 25 /\ last.args.amount > 0 /\ last.args.min > 0
    ELSE last.args.len = 32 /\ last.args.amount > 0 /\ last.args.lim_x > 0
         /\ last.args.lim_y > 0

(***************************************************************************)
(* C17: a Deposit, Withdraw or Swap (with the right number of accounts)    *)
(* whose expiration is less than the clock's time fails with               *)
(* InvalidInstructionData in the payload decode, before the record is      *)
(* loaded, with no call issued and nothing changed; one whose expiration   *)
(* equals the clock's time, its payload otherwise well-formed, passes the  *)
(* payload decode.                                                         *)
(***************************************************************************)
C17_ExpirationIsChecked ==
    last.op \in Trading /\ last.args.n =>
        /\ last.args.expiration < last.args.clock =>
              /\ last.err = "InvalidInstructionData"
              /\ last.stage = "data"
              /\ last.issued = <<>>
              /\ LedgerUnchanged
              /\ RecordUnchanged
        /\ last.args.expiration = last.args.clock /\ WellFormedPayload =>
              last.stage # "data"

\* a well-formed Withdraw that expired one tick ago
C17_Witness ==
    /\ last.op = "Withdraw"
    /\ last.pre.config.state = Initialized
    /\ WellFormedPayload
    /\ last.args.expiration + 1 = last.args.clock
    /\ last.stage = "data"

\* the output of the Swap in `last` as section 4.3 computes it from the
\* reserves, the fee and the input
SwapOutput ==
    LET x    == last.pre.vault_x
        y    == last.pre.vault_y
        rin  == IF last.args.is_x THEN x ELSE y
        rout == IF last.args.is_x THEN y ELSE x
        iaf  == (last.args.amount * (10000 - PassedRecord.fee)) \div 10000
    IN  IF rin + iaf = 0 THEN 0 ELSE rout - ((x * y) \div (rin + iaf))

(***************************************************************************)
(* C18: a Swap that gets to compute its amounts fails, with no call        *)
(* issued, when the computed output is less than the caller's min or when  *)
(* the input or the output is zero; a successful Swap transfers a non-zero *)
(* input and a non-zero output that is at least min.                       *)
(***************************************************************************)
C18_SwapRespectsMin ==
    last.op = "Swap" /\ last.stage \in {"curve", "zero", "cpi", "done"} =>
        /\ (SwapOutput < last.args.min \/ SwapOutput = 0 \/ last.args.amount = 0)
              => last.err # "Ok" /\ last.issued = <<>> /\ LedgerUnchanged
        /\ last.err = "Ok" =>
              /\ last.issued[1].amount > 0
              /\ last.issued[2].amount > 0
              /\ last.issued[2].amount >= last.args.min
              /\ last.issued[2].amount = SwapOutput

\* a Swap that would pay out something, but less than the caller's min
C18_Witness ==
    /\ last.op = "Swap"
    /\ last.stage = "curve"
    /\ SwapOutput > 0
    /\ SwapOutput < last.args.min

(***************************************************************************)
(* C19: a successful Deposit on a pool whose LP supply and two vault       *)
(* balances are all 0 takes exactly (max_x, max_y) from the caller and     *)
(* mints exactly the requested amount, so that the reserves afterwards     *)
(* are (max_x, max_y).                                                     *)
(***************************************************************************)
C19_BootstrapTakesMaxima ==
    /\ last.op = "Deposit"
    /\ last.err = "Ok"
    /\ last.pre.lp_supply = 0
    /\ last.pre.vault_x = 0
    /\ last.pre.vault_y = 0
    => /\ last.issued[1].amount = last.args.lim_x
       /\ last.issued[2].amount = last.args.lim_y
       /\ last.issued[3].amount = last.args.amount
       /\ vault_x = last.args.lim_x
       /\ vault_y = last.args.lim_y

\* a Deposit with all of the pool's own accounts on a freshly initialized pool,
\* its payload asking for amount 0 with non-zero maxima and not expired
FreshPoolZeroAmountDeposit ==
    /\ last.op = "Deposit"
    /\ last.args.n
    /\ last.args.config = PoolKey
    /\ last.args.vault_x = PoolVaultX
    /\ last.args.vault_y = PoolVaultY
    /\ last.args.mint_lp = PoolMintLp
    /\ last.args.token_program = TOKEN_ID
    /\ last.pre.config.owner = ID
    /\ last.pre.config.state = Initialized
    /\ last.pre.lp_supply = 0
    /\ last.pre.vault_x = 0
    /\ last.pre.vault_y = 0
    /\ last.args.len = 32
    /\ last.args.amount = 0
    /\ last.args.lim_x > 0
    /\ last.args.lim_y > 0
    /\ last.args.lim_x # last.args.lim_y
    /\ last.args.lim_x <= last.pre.user_x
    /\ last.args.lim_y <= last.pre.user_y
    /\ last.args.expiration >= last.args.clock

(***************************************************************************)
(* C20: on a freshly initialized pool (LP supply 0, both vaults empty) a   *)
(* Deposit with amount = 0, non-zero max_x and max_y (1000 and 2000 in the *)
(* claim; any two maxima the caller can pay here) and an unexpired         *)
(* expiration is accepted as the bootstrap deposit and leaves the          *)
(* reserves (max_x, max_y).                                                *)
(***************************************************************************)
C20_ZeroAmountBootstraps ==
    FreshPoolZeroAmountDeposit =>
        /\ last.err = "Ok"
        /\ vault_x = last.args.lim_x
        /\ vault_y = last.args.lim_y

(***************************************************************************)
(* C20, as the code has it: a Deposit (with the right number of accounts)  *)
(* whose amount is 0 fails with InvalidInstructionData in the payload      *)
(* decode, on a fresh pool as on any other, with no call issued and the    *)
(* reserves and the LP supply left as they were.                           *)
(***************************************************************************)
C20_ZeroAmountIsRefused ==
    last.op = "Deposit" /\ last.args.n /\ last.args.amount = 0 =>
        /\ last.err = "InvalidInstructionData"
        /\ last.stage = "data"
        /\ last.issued = <<>>
        /\ LedgerUnchanged

\* the claim's Deposit, refused
C20_Witness ==
    /\ FreshPoolZeroAmountDeposit
    /\ last.stage = "data"
    /\ vault_x = 0
    /\ vault_y = 0

(***************************************************************************)
(* C21: with no transfers to the vaults from outside the program, at every *)
(* instruction boundary of an initialized pool the LP supply is zero if    *)
(* and only if both vault balances are zero.                               *)
(***************************************************************************)
C21_SupplyMatchesVaults ==
    config.owner = ID
    => ((lp_supply = 0) <=> (vault_x = 0 /\ vault_y = 0))

(***************************************************************************)
(* C22: in every reachable state of an initialized pool the stored fee     *)
(* satisfies 0 <= fee <= 10000: neither Initialize nor UpdateConfig leaves *)
(* a committed record whose fee exceeds 10000.                             *)
(***************************************************************************)
C22_FeeStaysInRange ==
    config.owner = ID => (0 <= config.fee /\ config.fee <= MAX_FEE_BPS)

\* an authorised UpdateConfig fee payload naming a fee of 10000 has returned Ok
\* on an initialized pool, whose stored fee is still the Initialize-time one
C22_Witness ==
    /\ last.op = "UpdateConfig"
    /\ last.args.len = 2
    /\ last.args.fee >= MAX_FEE_BPS
    /\ last.err = "Ok"
    /\ config.owner = ID
    /\ config.fee = 30

(***************************************************************************)
(* C23: a fee is rejected exactly when it exceeds 10000: set_fee accepts   *)
(* and stores every fee in 0..10000, 10000 included, and rejects every fee *)
(* above 10000 leaving the stored fee unchanged.                           *)
(***************************************************************************)
C23_FeeRejectedAboveMax ==
    last.op = "set_fee"
    => IF last.args.fee <= MAX_FEE_BPS
       THEN last.err = "Ok" /\ config.fee = last.args.fee
       ELSE last.err # "Ok" /\ config.fee = last.pre.config.fee

(***************************************************************************)
(* C30: set_state(v) succeeds and stores v for every v in {0, 1, 2, 3},    *)
(* WithdrawOnly = 3 included, and fails, leaving the stored state          *)
(* unchanged, for every v above 3.                                         *)
(***************************************************************************)
C30_StateAcceptedUpToWithdrawOnly ==
    last.op = "set_state"
    => IF last.args.status <= WithdrawOnly
       THEN last.err = "Ok" /\ config.state = last.args.status
       ELSE last.err # "Ok" /\ config.state = last.pre.config.state

(***************************************************************************)
(* C24: after a successful Initialize the record exists with state         *)
(* Initialized and with seed, mint_x, mint_y, fee and bump equal to the    *)
(* payload's values, its authority is the payload's authority, or all-zero *)
(* when the payload carries none, and the LP mint exists with supply 0 and *)
(* the record's address as its mint authority.                             *)
(***************************************************************************)
C24_InitializeWritesPayload ==
    last.op = "Initialize" /\ last.err = "Ok"
    => /\ config.owner = ID
       /\ config.data_len = LEN
       /\ config.state = Initialized
       /\ config.seed = last.args.seed
       /\ config.mint_x = MintX
       /\ config.mint_y = MintY
       /\ config.fee = last.args.fee
       /\ config.config_bump = Bump
       /\ config.authority = IF last.args.len = INITIALIZE_DATA_LEN_WITH_AUTHORITY
                                THEN last.args.new_authority
                                ELSE ZeroKey
       /\ last.issued[3] = [kind |-> "InitializeMint2", from |-> last.args.config,
                            to |-> MintLpAddress(last.args.config, Bump), amount |-> 0]
       /\ MintAt(last.args).exists
       /\ MintAt(last.args).supply = 0
       /\ MintAt(last.args).mint_authority = last.args.config

\* an Initialize whose 108-byte payload names an authority and a fee of 30 has
\* succeeded
C24_Witness ==
    /\ last.op = "Initialize"
    /\ last.err = "Ok"
    /\ last.args.len = INITIALIZE_DATA_LEN_WITH_AUTHORITY
    /\ last.args.fee = 30
    /\ config.authority = AuthKey
    /\ last.pre.config = NoAccount

(***************************************************************************)
(* C25: Deposit, Withdraw and Swap never modify any field of the record,   *)
(* whether they succeed or fail, and once a pool is initialized its seed,  *)
(* mint_x, mint_y and bump keep their Initialize-time values under every   *)
(* instruction, further Initialize attempts on the same record included.   *)
(***************************************************************************)
C25_RecordIsFrozen ==
    /\ last.op \in Trading => RecordUnchanged
    /\ last.op # "none" /\ last.pre.config.owner = ID
       => /\ config.owner = ID
          /\ config.seed = last.pre.config.seed
          /\ config.mint_x = last.pre.config.mint_x
          /\ config.mint_y = last.pre.config.mint_y
          /\ config.config_bump = last.pre.config.config_bump

\* a further Initialize naming another seed has been attempted on the
\* initialized pool, which holds reserves, and the record kept its seed
C25_Witness ==
    /\ last.op = "Initialize"
    /\ last.pre.config.owner = ID
    /\ last.args.seed # last.pre.config.seed
    /\ last.args.len = INITIALIZE_DATA_LEN_WITHOUT_AUTHORITY
    /\ last.args.fee = 30
    /\ last.stage = "cpi"
    /\ vault_x > 0
    /\ config.seed = Seed1

(***************************************************************************)
(* C26: Initialize accepts exactly two payload lengths, 76 bytes (no       *)
(* authority) and 108 bytes (authority in the last 32 bytes); a payload of *)
(* any other length fails with InvalidInstructionData and creates no       *)
(* account.                                                                *)
(***************************************************************************)
C26_OnlyTwoPayloadLengths ==
    last.op = "Initialize" /\ last.args.n
    => IF last.args.len \in {INITIALIZE_DATA_LEN_WITHOUT_AUTHORITY,
                             INITIALIZE_DATA_LEN_WITH_AUTHORITY}
       THEN last.stage # "data"
       ELSE /\ last.err = "InvalidInstructionData"
            /\ last.issued = <<>>
            /\ RecordUnchanged

(***************************************************************************)
(* C27: the five instructions carry pairwise distinct opcode bytes,        *)
(* Initialize 0, Deposit 1, Withdraw 2, Swap 3 and UpdateConfig 4, so that *)
(* the opcode of an instruction selects exactly its own processor: a Swap  *)
(* payload is never routed to UpdateConfig nor the reverse.                *)
(***************************************************************************)
C27_OpcodesAreDistinct ==
    last.op \in Instructions
    => /\ Routed(DISCRIMINATOR(last.op)) = {last.op}
       /\ DISCRIMINATOR(last.op) =
              CASE last.op = "Initialize" -> 0
                [] last.op = "Deposit" -> 1
                [] last.op = "Withdraw" -> 2
                [] last.op = "Swap" -> 3
                [] last.op = "UpdateConfig" -> 4

(***************************************************************************)
(* C29: load and load_mut fail with InvalidAccountData whenever the config *)
(* account passed is not owned by this program or its data length is not   *)
(* exactly 108 bytes, so that no instruction acts on a record the program  *)
(* did not create: an instruction given any config account other than the  *)
(* pool's fails, issues no call and changes nothing.                       *)
(***************************************************************************)
C29_LoadChecksOwnerAndLength ==
    /\ last.op \in Trading \cup {"UpdateConfig"}
    /\ last.stage \notin {"accounts", "data"}
    => /\ PassedRecord.owner # ID \/ PassedRecord.data_len # LEN
          => /\ last.err = "InvalidAccountData"
             /\ last.stage = "load"
       /\ last.args.config # PoolKey
          => /\ last.err # "Ok"
             /\ last.issued = <<>>
             /\ LedgerUnchanged
             /\ RecordUnchanged

\* a Deposit naming another program's record, of the right length, has been
\* refused at load on an initialized pool
C29_Witness ==
    /\ last.op = "Deposit"
    /\ last.pre.config.owner = ID
    /\ last.args.config = ForeignConfigKey
    /\ PassedRecord.data_len = LEN
    /\ PassedRecord.owner # ID
    /\ last.stage = "load"
    /\ last.err = "InvalidAccountData"

\* the instruction in `last` got as far as asking the curve for its amounts
ReachedCurve ==
    /\ last.op \in Trading
    /\ last.stage \notin {"accounts", "data", "load", "state", "vault_x", "vault_y", "deserialize"}

\* the supply the instruction in `last` read from the mint it was passed
SupplyRead ==
    IF last.args.mint_lp = PoolMintLp THEN last.pre.lp_supply ELSE last.args.mint_supply

\* the branch of Deposit and of Withdraw that uses no arithmetic
Bootstrap == SupplyRead = 0 /\ last.pre.vault_x = 0 /\ last.pre.vault_y = 0
FullRedemption == SupplyRead = last.args.amount

\* some product or sum of the formula of the instruction in `last`, taken over
\* the unbounded integers, exceeds the unsigned integer type
Overflows ==
    LET x == last.pre.vault_x
        y == last.pre.vault_y
        L == last.args.amount
        rin == IF last.args.is_x THEN x ELSE y
        num == L * (MAX_FEE_BPS - PassedRecord.fee)
    IN  CASE last.op = "Deposit" -> ~Bootstrap /\ (L * x > U64_MAX \/ L * y > U64_MAX)
          [] last.op = "Withdraw" -> ~FullRedemption /\ (L * x > U64_MAX \/ L * y > U64_MAX)
          [] last.op = "Swap" -> \/ num > U64_MAX
                                 \/ x * y > U64_MAX
                                 \/ rin + (num \div MAX_FEE_BPS) > U64_MAX
          [] OTHER -> FALSE

\* the two amounts of the instruction in `last` by the formulas of section 4.3
\* over the unbounded integers
ExactAmounts ==
    LET x == last.pre.vault_x
        y == last.pre.vault_y
        L == last.args.amount
        s == SupplyRead
    IN  CASE last.op = "Deposit" ->
               IF Bootstrap THEN <<last.args.lim_x, last.args.lim_y>>
               ELSE <<(L * x + s - 1) \div s, (L * y + s - 1) \div s>>
          [] last.op = "Withdraw" ->
               IF FullRedemption THEN <<x, y>>
               ELSE <<(L * x) \div s, (L * y) \div s>>
          [] last.op = "Swap" -> <<L, SwapOutput>>

DepositReachedAmounts ==
    /\ last.op = "Deposit"
    /\ last.stage \notin {"accounts", "data", "load", "state", "vault_x", "vault_y", "deserialize"}

(***************************************************************************)
(* C31: Deposit takes the bootstrap branch only when the LP supply and     *)
(* both vault balances are all zero; on a pool whose LP supply is 0 while  *)
(* a vault holds tokens sent to it before the first deposit, every Deposit *)
(* takes the proportional branch with s = 0 and fails with                 *)
(* InvalidArgument, and the LP supply of the pool is 0 in every later      *)
(* state.                                                                  *)
(***************************************************************************)
C31_DonatedPoolNeverMints ==
    /\ lp_supply = 0
    /\ /\ DepositReachedAmounts
       /\ last.pre.lp_supply = 0
       /\ last.pre.vault_x # 0 \/ last.pre.vault_y # 0
       => /\ last.err = "InvalidArgument"
          /\ last.stage = "curve"
          /\ last.issued = <<>>

====
